---- MODULE Spec2Model ----
(***************************************************************************)
(* Model of the Storyline localisation tools:                              *)
(*   src/storyline_xliff_splitter.py  - filter_xliff and its helpers       *)
(*   src/storyline_loc_estimator.py   - extract_rows_from_story, the       *)
(*                                      markup walker and the JSON walker  *)
(*                                                                         *)
(* Strings are sequences of Unicode code points, so that searching,        *)
(* stripping, lower-casing and the regular expressions' character classes  *)
(* are computed and not assumed.  An ElementTree is a set of objects in    *)
(* `heap`: an element is the index of its record, and copy.deepcopy makes  *)
(* new objects.                                                            *)
(***************************************************************************)
EXTENDS Integers, Sequences, FiniteSets, TLC

VARIABLES
    pc,                 \* position of the running function
    heap,               \* ElementTree objects: Seq of element records
    tree,               \* filter_xliff: root element of the input tree
    tree0,              \* the heap as it was when filter_xliff was called
    notes_only,         \* filter_xliff: root of the notes-only shell (None before clone)
    main_no_notes_alt,  \* filter_xliff: root of the main shell (None before clone)
    todo,               \* filter_xliff: units the for loop has still to visit
    placed,             \* filter_xliff: what each loop iteration did
    notes_patterns,     \* filter_xliff: compiled notes patterns
    alt_patterns,       \* filter_xliff: compiled alt patterns
    entries,            \* extract_rows_from_story: zf.infolist() with each entry's bytes
    skip_alttext,       \* extract_rows_from_story: its parameter
    idx,                \* extract_rows_from_story: the entry the for loop is at
    rows,               \* extract_rows_from_story: candidate records
    media_counts,       \* extract_rows_from_story: the media tally
    out,                \* extract_rows_from_story: the records to return
    deduped             \* extract_rows_from_story: out as the dedup pass left it

xliffVars == <<heap, tree, tree0, notes_only, main_no_notes_alt, todo, placed,
               notes_patterns, alt_patterns>>

storyVars == <<entries, skip_alttext, idx, rows, media_counts, out, deduped>>

vars == <<pc, xliffVars, storyVars>>

(***************************************************************************)
(* Bounds of the model                                                     *)
(***************************************************************************)
MaxUnits == 2
MaxEntries == 2

(***************************************************************************)
(* Strings                                                                 *)
(***************************************************************************)
None == 0

\* str.lower() / re.IGNORECASE on the letters the model uses
Lower(c) ==
    IF (c >= 65 /\ c <= 90) \/ (c >= 192 /\ c <= 222 /\ c # 215) \/ (c >= 1040 /\ c <= 1071)
    THEN c + 32
    ELSE c

LowerStr(s) == [i \in 1..Len(s) |-> Lower(s[i])]

\* the characters str.strip() removes and \s matches
IsSpace(c) ==
    c \in {9, 10, 11, 12, 13, 28, 29, 30, 31, 32, 133, 160, 5760, 8232, 8233, 8239, 8287, 12288}
         \cup (8192..8202)

RECURSIVE LStrip(_)
LStrip(s) == IF s # <<>> /\ IsSpace(Head(s)) THEN LStrip(Tail(s)) ELSE s

RECURSIVE RStrip(_)
RStrip(s) ==
    IF s # <<>> /\ IsSpace(s[Len(s)]) THEN RStrip(SubSeq(s, 1, Len(s) - 1)) ELSE s

Strip(s) == RStrip(LStrip(s))

ToSet(s) == {s[i] : i \in 1..Len(s)}

Reverse(s) == [i \in 1..Len(s) |-> s[Len(s) + 1 - i]]

RECURSIVE Concat(_)
Concat(ss) == IF ss = <<>> THEN <<>> ELSE Head(ss) \o Concat(Tail(ss))

\* p.search(t) for a pattern that is a literal, compiled with re.IGNORECASE
Search(p, t) ==
    \E i \in 1..(Len(t) - Len(p) + 1) :
        \A j \in 1..Len(p) : Lower(t[i + j - 1]) = Lower(p[j])

(***************************************************************************)
(* ElementTree elements                                                    *)
(***************************************************************************)
\* q(tag): the tag in the xliff namespace; Bare(tag): the tag without one
q(tag) == <<TRUE, tag>>
Bare(tag) == <<FALSE, tag>>

Element(tag, attrib, text, tail, kids) ==
    [tag |-> tag, attrib |-> attrib, text |-> text, tail |-> tail, kids |-> kids]

\* Element.findall(tag) / Element.find(tag): direct children with exactly that tag
ETfindall(h, o, tag) == SelectSeq(h[o].kids, LAMBDA k : h[k].tag = tag)

findall(h, o, tag) ==
    LET results == ETfindall(h, o, q(tag))
    IN  IF results = <<>> THEN ETfindall(h, o, Bare(tag)) ELSE results

find(h, o, tag) ==
    LET ns == ETfindall(h, o, q(tag))
        bare == ETfindall(h, o, Bare(tag))
    IN  IF ns # <<>> THEN Head(ns)
        ELSE IF bare # <<>> THEN Head(bare)
        ELSE None

\* attrib.get(key) on an ordered attribute list of <<key, value>> pairs
AttrGet(attrib, key) ==
    LET hits == SelectSeq(attrib, LAMBDA kv : kv[1] = key)
    IN  IF hits = <<>> THEN <<>> ELSE Head(hits)[2]

RECURSIVE Preorder(_, _)
RECURSIVE PreorderAll(_, _)
Preorder(h, o) == <<o>> \o PreorderAll(h, h[o].kids)
PreorderAll(h, ks) ==
    IF ks = <<>> THEN <<>> ELSE Preorder(h, Head(ks)) \o PreorderAll(h, Tail(ks))

IndexOf(s, x) == CHOOSE i \in 1..Len(s) : s[i] = x

\* a copy that is the object itself
deepcopy_alias(h, o) == [h |-> h, o |-> o]

\* copy.deepcopy(elem): new objects for elem and all its descendants
deepcopy(h, o) ==
    LET pre == Preorder(h, o)
        new(x) == Len(h) + IndexOf(pre, x)
        copies == [i \in 1..Len(pre) |->
                      [h[pre[i]] EXCEPT !.kids = [j \in 1..Len(@) |-> new(@[j])]]]
    IN  [h |-> h \o copies, o |-> Len(h) + 1]

\* "".join(elem.itertext()): text, then each child's itertext and tail
RECURSIVE itertext(_, _)
RECURSIVE itertextKids(_, _)
itertext(h, o) == h[o].text \o itertextKids(h, h[o].kids)
itertextKids(h, ks) ==
    IF ks = <<>> THEN <<>>
    ELSE itertext(h, Head(ks)) \o h[Head(ks)].tail \o itertextKids(h, Tail(ks))

get_text_recursive(h, o) == IF o = None THEN <<>> ELSE Strip(itertext(h, o))


(***************************************************************************)
(* storyline_loc_estimator.py: constants and text functions                *)
(***************************************************************************)
TRANSLATABLE_ATTRS ==
    { <<97, 108, 116>>,                                           \* alt
      <<116, 105, 116, 108, 101>>,                                \* title
      <<108, 97, 98, 101, 108>>,                                  \* label
      <<97, 114, 105, 97, 45, 108, 97, 98, 101, 108>>,            \* aria-label
      <<97, 114, 105, 97, 95, 116, 105, 116, 108, 101>>,          \* aria_title
      <<116, 111, 111, 108, 116, 105, 112>>,                      \* tooltip
      <<112, 108, 97, 99, 101, 104, 111, 108, 100, 101, 114>>,    \* placeholder
      <<118, 97, 108, 117, 101>>,                                 \* value
      <<99, 97, 112, 116, 105, 111, 110>>,                        \* caption
      <<116, 101, 120, 116>>,                                     \* text
      <<99, 111, 110, 116, 101, 110, 116>>,                       \* content
      <<110, 97, 109, 101>>,                                      \* name
      <<100, 105, 115, 112, 108, 97, 121, 78, 97, 109, 101>> }    \* displayName

NOISE_ATTRS ==
    { <<105, 100>>,                                               \* id
      <<117, 105, 100>>,                                          \* uid
      <<103, 117, 105, 100>>,                                     \* guid
      <<114, 105, 100>>,                                          \* rid
      <<120>>,                                                    \* x
      <<121>>,                                                    \* y
      <<119>>,                                                    \* w
      <<104>>,                                                    \* h
      <<108, 101, 102, 116>>,                                     \* left
      <<116, 111, 112>>,                                          \* top
      <<119, 105, 100, 116, 104>>,                                \* width
      <<104, 101, 105, 103, 104, 116>>,                           \* height
      <<115, 116, 121, 108, 101>>,                                \* style
      <<99, 108, 97, 115, 115>>,                                  \* class
      <<99, 116, 121, 112, 101>>,                                 \* ctype
      <<116, 121, 112, 101>>,                                     \* type
      <<108, 97, 110, 103>>,                                      \* lang
      <<108, 97, 110, 103, 117, 97, 103, 101>>,                   \* language
      <<115, 114, 99>>,                                           \* src
      <<104, 114, 101, 102>>,                                     \* href
      <<102, 105, 108, 108>>,                                     \* fill
      <<115, 116, 114, 111, 107, 101>>,                           \* stroke
      <<102, 111, 110, 116>>,                                     \* font
      <<102, 111, 110, 116, 83, 105, 122, 101>>,                  \* fontSize
      <<99, 111, 108, 111, 114>>,                                 \* color
      <<97, 108, 105, 103, 110, 109, 101, 110, 116>>,             \* alignment
      <<98, 111, 108, 100>>,                                      \* bold
      <<105, 116, 97, 108, 105, 99>>,                             \* italic
      <<117, 110, 100, 101, 114, 108, 105, 110, 101>> }           \* underline

LIKELY_TEXT_TAGS ==
    { <<116, 101, 120, 116>>,                                     \* text
      <<112>>,                                                    \* p
      <<115, 112, 97, 110>>,                                      \* span
      <<100, 105, 118>>,                                          \* div
      <<116, 115, 112, 97, 110>>,                                 \* tspan
      <<116, 105, 116, 108, 101>>,                                \* title
      <<100, 101, 115, 99>>,                                      \* desc
      <<99, 97, 112, 116, 105, 111, 110>>,                        \* caption
      <<112, 97, 114, 97>>,                                       \* para
      <<114, 117, 110>>,                                          \* run
      <<108, 105>>,                                               \* li
      <<104, 49>>,                                                \* h1
      <<104, 50>>,                                                \* h2
      <<104, 51>>,                                                \* h3
      <<104, 52>>,                                                \* h4
      <<104, 53>>,                                                \* h5
      <<104, 54>>,                                                \* h6
      <<116, 100>>,                                               \* td
      <<116, 104>>,                                               \* th
      <<108, 97, 98, 101, 108>>,                                  \* label
      <<118, 97, 108, 117, 101>>,                                 \* value
      <<110, 97, 109, 101>>,                                      \* name
      <<103>> }                                                   \* g

SKIP_TAGS ==
    { <<115, 116, 121, 108, 101>>,                                \* style
      <<115, 99, 114, 105, 112, 116>>,                            \* script
      <<100, 101, 102, 115>>,                                     \* defs
      <<109, 101, 116, 97, 100, 97, 116, 97>>,                    \* metadata
      <<102, 111, 110, 116>>,                                     \* font
      <<105, 109, 97, 103, 101>>,                                 \* image
      <<105, 109, 103>>,                                          \* img
      <<115, 118, 103>>,                                          \* svg
      <<117, 115, 101>>,                                          \* use
      <<99, 108, 105, 112, 80, 97, 116, 104>> }                   \* clipPath

ImageExts ==
    { <<46, 112, 110, 103>>,                                      \* .png
      <<46, 106, 112, 103>>,                                      \* .jpg
      <<46, 106, 112, 101, 103>>,                                 \* .jpeg
      <<46, 103, 105, 102>>,                                      \* .gif
      <<46, 115, 118, 103>>,                                      \* .svg
      <<46, 119, 101, 98, 112>> }                                 \* .webp

AudioExts ==
    { <<46, 109, 112, 51>>,                                       \* .mp3
      <<46, 119, 97, 118>>,                                       \* .wav
      <<46, 109, 52, 97>>,                                        \* .m4a
      <<46, 111, 103, 103>> }                                     \* .ogg

VideoExts ==
    { <<46, 109, 112, 52>>,                                       \* .mp4
      <<46, 119, 101, 98, 109>>,                                  \* .webm
      <<46, 109, 111, 118>>,                                      \* .mov
      <<46, 109, 52, 118>> }                                      \* .m4v

TextExts ==
    { <<46, 120, 109, 108>>,                                      \* .xml
      <<46, 104, 116, 109>>,                                      \* .htm
      <<46, 104, 116, 109, 108>>,                                 \* .html
      <<46, 106, 115, 111, 110>> }                                \* .json


InRange(c, lo, hi) == c >= lo /\ c <= hi

StartsWith(s, p) == Len(s) >= Len(p) /\ SubSeq(s, 1, Len(p)) = p

EndsWith(s, p) == Len(s) >= Len(p) /\ SubSeq(s, Len(s) - Len(p) + 1, Len(s)) = p

Contains(s, p) == \E i \in 1..(Len(s) - Len(p) + 1) : SubSeq(s, i, i + Len(p) - 1) = p

\* html.unescape, for the named references &nbsp; &amp; &lt; &gt;
Entities ==
    << <<<<38, 110, 98, 115, 112, 59>>, 160>>,
       <<<<38, 97, 109, 112, 59>>, 38>>,
       <<<<38, 108, 116, 59>>, 60>>,
       <<<<38, 103, 116, 59>>, 62>> >>

RECURSIVE unescape(_)
unescape(s) ==
    IF s = <<>> THEN <<>>
    ELSE LET hits == SelectSeq(Entities, LAMBDA e : StartsWith(s, e[1]))
         IN  IF hits # <<>>
             THEN <<hits[1][2]>> \o unescape(SubSeq(s, Len(hits[1][1]) + 1, Len(s)))
             ELSE <<Head(s)>> \o unescape(Tail(s))

\* WS_RE.sub(' ', s): every run of whitespace becomes one space
RECURSIVE CollapseWs(_)
CollapseWs(s) ==
    IF s = <<>> THEN <<>>
    ELSE IF IsSpace(Head(s)) THEN <<32>> \o CollapseWs(LStrip(s))
    ELSE <<Head(s)>> \o CollapseWs(Tail(s))

normalize_text(s) ==
    LET u == unescape(s)
        r == [i \in 1..Len(u) |-> IF u[i] = 160 THEN 32 ELSE u[i]]
    IN  Strip(CollapseWs(r))

\* the character class of is_likely_human_text
IsHumanLetter(c) ==
    \/ InRange(c, 65, 90) \/ InRange(c, 97, 122)
    \/ InRange(c, 192, 214) \/ InRange(c, 216, 246) \/ InRange(c, 248, 255)
    \/ InRange(c, 256, 382) \/ InRange(c, 1024, 1119) \/ InRange(c, 1488, 1514)
    \/ InRange(c, 1536, 1791) \/ InRange(c, 2304, 2431) \/ InRange(c, 3585, 3675)
    \/ InRange(c, 19968, 40869) \/ InRange(c, 12353, 12447) \/ InRange(c, 44032, 55203)

is_likely_human_text(s) == \E i \in 1..Len(s) : IsHumanLetter(s[i])

\* \w: ASCII letters, digits, underscore, and the letters of Latin-1, Latin
\* Extended-A, Greek, Cyrillic, Hebrew, Kana, CJK and Hangul
IsWordChar(c) ==
    \/ InRange(c, 48, 57) \/ InRange(c, 65, 90) \/ InRange(c, 97, 122) \/ c = 95
    \/ InRange(c, 192, 214) \/ InRange(c, 216, 246) \/ InRange(c, 248, 383)
    \/ InRange(c, 913, 929) \/ InRange(c, 931, 969) \/ InRange(c, 1024, 1153)
    \/ InRange(c, 1488, 1514) \/ InRange(c, 12353, 12438) \/ InRange(c, 12449, 12538)
    \/ InRange(c, 19968, 40959) \/ InRange(c, 44032, 55203)

IsHexOrHyphen(c) ==
    InRange(c, 48, 57) \/ InRange(c, 65, 70) \/ InRange(c, 97, 102) \/ c = 45

should_skip_text(s) ==
    \/ s = <<>>
    \/ s = <<45>>
    \/ \A i \in 1..Len(s) : ~IsWordChar(s[i]) \/ s[i] = 95
    \/ Len(s) >= 8 /\ \A i \in 1..Len(s) : IsHexOrHyphen(s[i])

\* the CJK / Kana / Hangul class of word_count
IsCjk(c) ==
    InRange(c, 19968, 40959) \/ InRange(c, 12352, 12543) \/ InRange(c, 44032, 55215)

\* the token class [A-Za-zÀ-ÖØ-öø-ÿ0-9'] of word_count
IsTokenChar(c) ==
    \/ InRange(c, 65, 90) \/ InRange(c, 97, 122) \/ InRange(c, 48, 57) \/ c = 39
    \/ InRange(c, 192, 214) \/ InRange(c, 216, 246) \/ InRange(c, 248, 255)

word_count(text) ==
    IF text = <<>> THEN 0
    ELSE LET cjk == {i \in 1..Len(text) : IsCjk(text[i])}
             no_cjk == [i \in 1..Len(text) |-> IF IsCjk(text[i]) THEN 32 ELSE text[i]]
             words == {i \in 1..Len(text) :
                         /\ IsTokenChar(no_cjk[i])
                         /\ (i = 1 \/ ~IsTokenChar(no_cjk[i - 1]))}
         IN  Cardinality(words) + Cardinality(cjk)

(***************************************************************************)
(* storyline_loc_estimator.py: the markup walker                           *)
(***************************************************************************)
\* a parsed element, as ET.fromstring returns it: tag "{uri}name" or "name"
XElem(tag, attrib, text, tail, kids) ==
    [tag |-> tag, attrib |-> attrib, text |-> text, tail |-> tail, kids |-> kids]

RECURSIVE AfterBrace(_)
AfterBrace(t) ==
    IF t = <<>> THEN <<>>
    ELSE IF Head(t) = 125 THEN Tail(t)
    ELSE AfterBrace(Tail(t))

\* t.split('}', 1)[-1] if '}' in t else t
BareName(t) == IF 125 \in ToSet(t) THEN AfterBrace(t) ELSE t

\* d[k] = v on a dict kept as an ordered list of <<key, value>> pairs
DictPut(d, k, v) ==
    IF \E i \in 1..Len(d) : d[i][1] = k
    THEN [i \in 1..Len(d) |-> IF d[i][1] = k THEN <<k, v>> ELSE d[i]]
    ELSE Append(d, <<k, v>>)

RECURSIVE DictFrom(_, _)
DictFrom(pairs, d) ==
    IF pairs = <<>> THEN d
    ELSE DictFrom(Tail(pairs), DictPut(d, Head(pairs)[1], Head(pairs)[2]))

RECURSIVE Join(_, _)
Join(segs, sep) ==
    IF segs = <<>> THEN <<>>
    ELSE IF Len(segs) = 1 THEN Head(segs)
    ELSE Head(segs) \o sep \o Join(Tail(segs), sep)

\* '/' + '/'.join(segs)
PathStr(segs) == <<47>> \o Join(segs, <<47>>)

S_hash_text == <<35, 116, 101, 120, 116>>          \* "#text"
S_hash_tail == <<35, 116, 97, 105, 108>>           \* "#tail"
S_dot_AltText == <<46, 65, 108, 116, 84, 101, 120, 116>>   \* ".AltText"

\* the record of one attribute (lines 104-110), or none
AttrRows(file_id, path, tag, kk, v) ==
    IF kk \in NOISE_ATTRS THEN <<>>
    ELSE LET val == normalize_text(v)
         IN  IF (kk \in TRANSLATABLE_ATTRS \/ is_likely_human_text(val))
                /\ ~should_skip_text(val)
             THEN << <<file_id, PathStr(path \o <<tag, <<64>> \o kk>>), val>> >>
             ELSE <<>>

\* the records of one element (lines 93-114).  The loop of lines 94-98 reads the
\* attribute values and breaks at the first that holds ".AltText"; it assigns
\* nothing, so include_alttext changes no record.
NodeRows(elem, path, file_id, include_alttext) ==
    LET tag == BareName(elem.tag)
        attrs == DictFrom([i \in 1..Len(elem.attrib) |->
                              <<BareName(elem.attrib[i][1]), elem.attrib[i][2]>>], <<>>)
        txt == normalize_text(elem.text)
        textRows ==
            IF /\ txt # <<>>
               /\ (tag \in LIKELY_TEXT_TAGS \/ is_likely_human_text(txt))
               /\ ~should_skip_text(txt)
            THEN << <<file_id, PathStr(path \o <<tag, S_hash_text>>), txt>> >>
            ELSE <<>>
        attrRows == Concat([i \in 1..Len(attrs) |->
                               AttrRows(file_id, path, tag, attrs[i][1], attrs[i][2])])
        tail == normalize_text(elem.tail)
        tailRows ==
            IF tail # <<>> /\ is_likely_human_text(tail) /\ ~should_skip_text(tail)
            THEN << <<file_id, PathStr(path \o <<tag, S_hash_tail>>), tail>> >>
            ELSE <<>>
    IN  textRows \o attrRows \o tailRows

\* the while loop of walk_xml_collect over its explicit stack
RECURSIVE walk_loop(_, _, _, _)
walk_loop(stack, file_id, out_rows, include_alttext) ==
    IF stack = <<>> THEN out_rows
    ELSE LET top == stack[Len(stack)]
             rest == SubSeq(stack, 1, Len(stack) - 1)
             elem == top[1]
             path == top[2]
             tag == BareName(elem.tag)
             kids == Reverse(elem.kids)
         IN  IF tag \in SKIP_TAGS
             THEN walk_loop(rest, file_id, out_rows, include_alttext)
             ELSE walk_loop(rest \o [i \in 1..Len(kids) |-> <<kids[i], path \o <<tag>>>>],
                            file_id,
                            out_rows \o NodeRows(elem, path, file_id, include_alttext),
                            include_alttext)

\* a walk that takes the oldest pending node first
RECURSIVE walk_queue_loop(_, _, _, _)
walk_queue_loop(queue, file_id, out_rows, include_alttext) ==
    IF queue = <<>> THEN out_rows
    ELSE LET elem == Head(queue)[1]
             path == Head(queue)[2]
             tag == BareName(elem.tag)
         IN  IF tag \in SKIP_TAGS
             THEN walk_queue_loop(Tail(queue), file_id, out_rows, include_alttext)
             ELSE walk_queue_loop(
                      Tail(queue) \o [i \in 1..Len(elem.kids) |-> <<elem.kids[i], path \o <<tag>>>>],
                      file_id,
                      out_rows \o NodeRows(elem, path, file_id, include_alttext),
                      include_alttext)

walk_xml_collect_queue(root, file_id, out_rows, include_alttext) ==
    walk_queue_loop(<< <<root, <<>>>> >>, file_id, out_rows, include_alttext)

walk_xml_collect(root, file_id, out_rows, include_alttext) ==
    walk_loop(<< <<root, <<>>>> >>, file_id, out_rows, include_alttext)

(***************************************************************************)
(* storyline_loc_estimator.py: the JSON walker                             *)
(* A decoded value is [t |-> "dict", items |-> <<key, value>> pairs],       *)
(* [t |-> "list", items |-> values], [t |-> "str"|"int"|"float"|"bool",     *)
(* str |-> str(v)] or [t |-> "null"].                                       *)
(***************************************************************************)
\* the rows after walking doc (lines 119-133)
RECURSIVE extract_from_json(_, _, _)
extract_from_json(doc, file_id, out_rows) ==
    IF doc.t = "dict"
    THEN LET item(i) ==
                 LET k == doc.items[i][1]
                     v == doc.items[i][2]
                     new_path == <<36, 46>> \o k
                 IN  IF v.t \in {"dict", "list"}
                     THEN extract_from_json(v, file_id, <<>>)
                     ELSE IF v.t \in {"str", "int", "float", "bool"}
                          THEN LET val == normalize_text(v.str)
                               IN  IF /\ val # <<>>
                                      /\ is_likely_human_text(val)
                                      /\ ~should_skip_text(val)
                                      /\ LowerStr(k) \notin NOISE_ATTRS
                                   THEN << <<file_id, new_path, val>> >>
                                   ELSE <<>>
                          ELSE <<>>
         IN  out_rows \o Concat([i \in 1..Len(doc.items) |-> item(i)])
    ELSE IF doc.t = "list"
    THEN out_rows \o Concat([i \in 1..Len(doc.items) |->
                                extract_from_json(doc.items[i], file_id, <<>>)])
    ELSE out_rows

(***************************************************************************)
(* storyline_loc_estimator.py: extract_rows_from_story                     *)
(* An archive entry is [filename, readable, data]; data is what the bytes  *)
(* are to the two parsers: [kind |-> "xml", root], [kind |-> "xml_ctrl",   *)
(* root] (well-formed only once the control bytes are stripped),           *)
(* [kind |-> "json", doc], [kind |-> "garbage"], or the bytes themselves:  *)
(* [kind |-> "bytes", encoding, body] is a document made of an XML         *)
(* declaration naming that encoding ("" when there is no declaration) and  *)
(* the bytes of body.                                                      *)
(***************************************************************************)
\* ZipInfo.is_dir()
is_dir(info) == info.filename # <<>> /\ info.filename[Len(info.filename)] = 47

EndsWithAny(name, exts) == \E e \in exts : EndsWith(name, e)

\* the code points of UTF-8 bytes; -1 where the bytes stop being UTF-8
RECURSIVE Utf8Decode(_)
Utf8Decode(bs) ==
    IF bs = <<>> THEN <<>>
    ELSE LET b == Head(bs)
             n == IF b < 128 THEN 1
                  ELSE IF b \in 194..223 THEN 2
                  ELSE IF b \in 224..239 THEN 3
                  ELSE IF b \in 240..244 THEN 4
                  ELSE 0
         IN  IF n = 0 \/ Len(bs) < n \/ \E j \in 2..n : bs[j] \notin 128..191 THEN <<-1>>
             ELSE LET cp == IF n = 1 THEN b
                            ELSE IF n = 2 THEN (b - 192) * 64 + (bs[2] - 128)
                            ELSE IF n = 3
                            THEN (b - 224) * 4096 + (bs[2] - 128) * 64 + (bs[3] - 128)
                            ELSE (b - 240) * 262144 + (bs[2] - 128) * 4096
                                 + (bs[3] - 128) * 64 + (bs[4] - 128)
                      wellFormed == /\ n = 3 => cp >= 2048 /\ cp \notin 55296..57343
                                    /\ n = 4 => cp \in 65536..1114111
                  IN  IF ~wellFormed THEN <<-1>>
                      ELSE <<cp>> \o Utf8Decode(SubSeq(bs, n + 1, Len(bs)))

\* the Char production of XML 1.0
IsXmlChar(c) ==
    c \in {9, 10, 13} \/ c \in 32..55295 \/ c \in 57344..65533 \/ c \in 65536..1114111

\* end-of-line handling of the parser: CR LF and CR become LF
RECURSIVE Newlines(_)
Newlines(cs) ==
    IF cs = <<>> THEN <<>>
    ELSE IF Head(cs) = 13
    THEN <<10>> \o Newlines(IF Len(cs) > 1 /\ cs[2] = 10 THEN Tail(Tail(cs)) ELSE Tail(cs))
    ELSE <<Head(cs)>> \o Newlines(Tail(cs))

S_p_open == <<60, 112, 62>>              \* "<p>"
S_p_close == <<60, 47, 112, 62>>         \* "</p>"

\* ET.fromstring on a body: the bodies read here are <p>characters</p> with no
\* markup or reference among the characters; anything else is not well-formed.
\* The result is <<root>>, or <<>> for a ParseError.
ParseBody(body) ==
    IF ~(Len(body) >= 7 /\ StartsWith(body, S_p_open) /\ EndsWith(body, S_p_close))
    THEN <<>>
    ELSE \* bound once: chars is read several times
         CHOOSE r \in {IF /\ \A i \in 1..Len(chars) : IsXmlChar(chars[i])
                          /\ 60 \notin ToSet(chars)
                          /\ 38 \notin ToSet(chars)
                       THEN <<XElem(<<112>>, <<>>, Newlines(chars), <<>>, <<>>)>>
                       ELSE <<>> :
                       chars \in {Utf8Decode(SubSeq(body, 4, Len(body) - 4))}} : TRUE

\* the encodings the parser reads without asking Python for a codec
BuiltinEncodings == {"", "utf-8"}

\* ET.fromstring(data): exc is "none" (root is <<root>>), "ParseError", or
\* "LookupError" (the codec lookup of an unknown declared encoding fails)
fromstring(data) ==
    IF data.kind = "xml" THEN [exc |-> "none", root |-> <<data.root>>]
    ELSE IF data.kind = "bytes"
    THEN IF data.encoding \notin BuiltinEncodings
         THEN [exc |-> "LookupError", root |-> <<>>]
         ELSE CHOOSE r \in {[exc |-> IF root = <<>> THEN "ParseError" ELSE "none",
                              root |-> root] : root \in {ParseBody(data.body)}} : TRUE
    ELSE [exc |-> "ParseError", root |-> <<>>]

\* re.sub(rb'[^\x09\x0A\x0D\x20-\xFF]+', b'', data)
cleaned(data) ==
    IF data.kind = "bytes"
    THEN [data EXCEPT !.body = SelectSeq(@, LAMBDA b : b \in {9, 10, 13} \/ b \in 32..255)]
    ELSE IF data.kind = "xml_ctrl" THEN [kind |-> "xml", root |-> data.root]
    ELSE data

\* parse_xml_bytes: ET.fromstring(data), on ParseError ET.fromstring(cleaned), on
\* ParseError again None (exc "none", root <<>>).  Only ParseError is caught.
parse_xml_bytes(data) ==
    CHOOSE r \in
        {IF first.exc # "ParseError" THEN first
         ELSE CHOOSE r2 \in {IF second.exc = "ParseError"
                              THEN [exc |-> "none", root |-> <<>>]
                              ELSE second : second \in {fromstring(cleaned(data))}} : TRUE
         : first \in {fromstring(data)}} : TRUE

\* the entry is one whose bytes go to parse_xml_bytes (lines 150-163)
IsMarkupRead(info) ==
    /\ EndsWithAny(LowerStr(info.filename), TextExts)
    /\ ~is_dir(info)
    /\ info.readable
    /\ ~EndsWith(LowerStr(info.filename), <<46, 106, 115, 111, 110>>)

\* an exception leaves parse_xml_bytes and so extract_rows_from_story
Aborts(info) == IsMarkupRead(info) /\ parse_xml_bytes(info.data).exc # "none"

\* a tally whose last branch takes every remaining entry that is no directory
Tally_all_others(counts, info) ==
    LET name_lower == LowerStr(info.filename)
    IN  IF EndsWithAny(name_lower, ImageExts) THEN [counts EXCEPT !.images = @ + 1]
        ELSE IF EndsWithAny(name_lower, AudioExts) THEN [counts EXCEPT !.audio = @ + 1]
        ELSE IF EndsWithAny(name_lower, VideoExts) THEN [counts EXCEPT !.video = @ + 1]
        ELSE IF ~is_dir(info) THEN [counts EXCEPT !.other = @ + 1]
        ELSE counts

\* lines 141-148
Tally(counts, info) ==
    LET name_lower == LowerStr(info.filename)
    IN  IF EndsWithAny(name_lower, ImageExts) THEN [counts EXCEPT !.images = @ + 1]
        ELSE IF EndsWithAny(name_lower, AudioExts) THEN [counts EXCEPT !.audio = @ + 1]
        ELSE IF EndsWithAny(name_lower, VideoExts) THEN [counts EXCEPT !.video = @ + 1]
        ELSE IF ~is_dir(info) /\ ~EndsWithAny(name_lower, TextExts)
             THEN [counts EXCEPT !.other = @ + 1]
        ELSE counts

S_dot_json == <<46, 106, 115, 111, 110>>       \* ".json"

\* lines 150-164: the rows after this entry
Collect(rs, info, skip) ==
    LET name_lower == LowerStr(info.filename)
    IN  IF ~(EndsWithAny(name_lower, TextExts) /\ ~is_dir(info)) THEN rs
        ELSE IF ~info.readable THEN rs
        ELSE IF EndsWith(name_lower, S_dot_json)
             THEN IF info.data.kind = "json"
                  THEN extract_from_json(info.data.doc, info.filename, rs)
                  ELSE rs
        ELSE CHOOSE r \in
                 {IF parsed.exc = "none" /\ parsed.root # <<>>
                  THEN walk_xml_collect(parsed.root[1], info.filename, rs, ~skip)
                  ELSE rs : parsed \in {parse_xml_bytes(info.data)}} : TRUE

\* a key that leaves the text out
DedupKey_no_text(r) == <<r[1], r[2]>>

DedupKey(r) == <<r[1], r[2], r[3]>>

\* lines 166-173
RECURSIVE dedup_loop(_, _, _)
dedup_loop(rs, seen, acc) ==
    IF rs = <<>> THEN acc
    ELSE LET key == DedupKey(Head(rs))
         IN  IF key \in seen THEN dedup_loop(Tail(rs), seen, acc)
             ELSE dedup_loop(Tail(rs), seen \cup {key}, Append(acc, Head(rs)))

\* str < str: by code points
StrLess(a, b) ==
    \E i \in 1..(Len(b)) :
        /\ i <= Len(a) + 1
        /\ SubSeq(a, 1, i - 1) = SubSeq(b, 1, i - 1)
        /\ (i = Len(a) + 1 \/ a[i] < b[i])

\* a key that keeps the letter case
SortKey_cased(r) == <<r[1], r[2]>>

\* line 174: key=lambda r: (r[0].lower(), r[1].lower())
SortKey(r) == <<LowerStr(r[1]), LowerStr(r[2])>>

KeyLess(k1, k2) == StrLess(k1[1], k2[1]) \/ (k1[1] = k2[1] /\ StrLess(k1[2], k2[2]))

\* r goes before the first element whose key is greater than its own
StableInsert(sorted, r) ==
    LET later == {i \in 1..Len(sorted) : KeyLess(SortKey(r), SortKey(sorted[i]))}
        at == IF later = {} THEN Len(sorted) + 1
              ELSE CHOOSE i \in later : \A j \in later : i <= j
    IN  SubSeq(sorted, 1, at - 1) \o <<r>> \o SubSeq(sorted, at, Len(sorted))

\* list.sort(key=...): stable
RECURSIVE list_sort(_, _)
list_sort(rs, sorted) ==
    IF rs = <<>> THEN sorted ELSE list_sort(Tail(rs), StableInsert(sorted, Head(rs)))

(***************************************************************************)
(* storyline_xliff_splitter.py                                             *)
(***************************************************************************)
RECURSIVE iter_units_of_files(_, _)
iter_units_of_files(h, fs) ==
    IF fs = <<>> THEN <<>>
    ELSE LET body == find(h, Head(fs), "body")
         IN  (IF body = None THEN <<>> ELSE findall(h, body, "trans-unit"))
             \o iter_units_of_files(h, Tail(fs))

iter_trans_units(h, root) == iter_units_of_files(h, findall(h, root, "file"))

NonEmpty(ss) == SelectSeq(ss, LAMBDA t : t # <<>>)

\* one <context>: its text if any, then its non-empty attribute values
ContextHints(h, c) ==
    LET t == get_text_recursive(h, c)
    IN  (IF t # <<>> THEN <<t>> ELSE <<>>)
        \o NonEmpty([i \in 1..Len(h[c].attrib) |-> h[c].attrib[i][2]])

IdentifyingAttrs == <<"id", "resname", "res-id", "extradata", "x-articulate-part">>

contexts_for_tu(h, tu) ==
    LET notes == findall(h, tu, "note")
        noteTexts == NonEmpty([i \in 1..Len(notes) |-> get_text_recursive(h, notes[i])])
        cgs == ETfindall(h, tu, Bare("context-group")) \o ETfindall(h, tu, q("context-group"))
        ctxOf(cg) == ETfindall(h, cg, Bare("context")) \o ETfindall(h, cg, q("context"))
        cs == Concat([i \in 1..Len(cgs) |-> ctxOf(cgs[i])])
        ctxTexts == Concat([i \in 1..Len(cs) |-> ContextHints(h, cs[i])])
        attrTexts == NonEmpty([i \in 1..Len(IdentifyingAttrs) |->
                                  AttrGet(h[tu].attrib, IdentifyingAttrs[i])])
        texts == noteTexts \o ctxTexts \o attrTexts
    IN  NonEmpty([i \in 1..Len(texts) |-> Strip(texts[i])])

matches_any(texts, patterns) ==
    \E i \in 1..Len(texts) : \E j \in 1..Len(patterns) : Search(patterns[j], texts[i])

IsTransUnitTag(tag) == tag \in {q("trans-unit"), Bare("trans-unit")}

\* lines 138-144 on the copy c = [h, o]: in the body of each file, the direct
\* children that are trans-units are removed
ClearUnits(c) ==
    LET files == findall(c.h, c.o, "file")
        bodies == {find(c.h, files[i], "body") : i \in 1..Len(files)} \ {None}
    IN  [h |-> [o \in 1..Len(c.h) |->
                  IF o \in bodies
                  THEN [c.h[o] EXCEPT
                          !.kids = SelectSeq(@, LAMBDA k : ~IsTransUnitTag(c.h[k].tag))]
                  ELSE c.h[o]],
         o |-> c.o]

clone_shell(h, root) ==
    CHOOSE shell \in {ClearUnits(c) : c \in {deepcopy(h, root)}} : TRUE

\* raised: the RuntimeError of a shell without any <file>/<body>
append_tu_to_output_shell(h, shell, tu) ==
    LET files == findall(h, shell, "file")
        withBody == SelectSeq(files, LAMBDA f : find(h, f, "body") # None)
    IN  IF withBody = <<>> THEN [h |-> h, o |-> None, raised |-> TRUE]
        ELSE LET body == find(h, Head(withBody), "body")
             IN  CHOOSE r \in {[h |-> [c.h EXCEPT ![body].kids = Append(@, c.o)],
                                o |-> c.o, raised |-> FALSE] : c \in {deepcopy(h, tu)}} : TRUE

\* no extract_rows_from_story call is in progress
StoryIdle ==
    /\ entries = <<>>
    /\ skip_alttext = TRUE
    /\ idx = 1
    /\ rows = <<>>
    /\ media_counts = [images |-> 0, audio |-> 0, video |-> 0, other |-> 0]
    /\ out = <<>>
    /\ deduped = <<>>

\* no filter_xliff call is in progress
XliffIdle ==
    /\ heap = <<>>
    /\ tree = None
    /\ tree0 = <<>>
    /\ notes_only = None
    /\ main_no_notes_alt = None
    /\ todo = <<>>
    /\ placed = <<>>
    /\ notes_patterns = <<>>
    /\ alt_patterns = <<>>

\* filter_xliff, line 166
CloneNotes ==
    /\ pc = "filter_xliff"
    /\ \E c \in {clone_shell(heap, tree)} :
        /\ heap' = c.h
        /\ notes_only' = c.o
    /\ pc' = "clone_main"
    /\ UNCHANGED <<tree, tree0, main_no_notes_alt, todo, placed, notes_patterns, alt_patterns>>
    /\ UNCHANGED storyVars

\* filter_xliff, line 167, and the start of the for loop of line 169
CloneMain ==
    /\ pc = "clone_main"
    /\ \E c \in {clone_shell(heap, tree)} :
        /\ heap' = c.h
        /\ main_no_notes_alt' = c.o
        /\ todo' = iter_trans_units(c.h, tree)
    /\ pc' = "loop"
    /\ UNCHANGED <<tree, tree0, notes_only, placed, notes_patterns, alt_patterns>>
    /\ UNCHANGED storyVars

\* The partition a unit goes to (filter_xliff, lines 170-185)
Destination(h, tu, np, ap) ==
    LET texts == contexts_for_tu(h, tu)
        is_notes == matches_any(texts, np)
        is_alt == matches_any(texts, ap)
    IN  IF is_notes THEN "NOTES" ELSE IF is_alt THEN "ALT" ELSE "MAIN"

\* one iteration of the for loop of filter_xliff
LoopStep ==
    /\ pc = "loop"
    /\ todo # <<>>
    /\ \E tu \in {Head(todo)} :
       \E dest \in {Destination(heap, tu, notes_patterns, alt_patterns)} :
       \E r \in {IF dest = "NOTES" THEN append_tu_to_output_shell(heap, notes_only, tu)
                  ELSE IF dest = "MAIN"
                       THEN append_tu_to_output_shell(heap, main_no_notes_alt, tu)
                       ELSE [h |-> heap, o |-> None, raised |-> FALSE]} :
        /\ heap' = r.h
        /\ placed' = Append(placed, [tu |-> tu, dest |-> dest, copy |-> r.o])
        /\ pc' = IF r.raised THEN "raised" ELSE "loop"
    /\ todo' = Tail(todo)
    /\ UNCHANGED <<tree, tree0, notes_only, main_no_notes_alt, notes_patterns, alt_patterns>>
    /\ UNCHANGED storyVars

\* filter_xliff, line 187
Return ==
    /\ pc = "loop"
    /\ todo = <<>>
    /\ pc' = "done"
    /\ UNCHANGED <<xliffVars, storyVars>>

(***************************************************************************)
(* Input documents of filter_xliff                                         *)
(***************************************************************************)
S_Hi == <<72, 105>>                                                 \* "Hi"
S_SlideNotes == <<83, 108, 105, 100, 101, 32, 78, 111, 116, 101, 115>>  \* "Slide Notes"
S_AltTextImg == <<65, 108, 116, 84, 101, 120, 116, 95, 105, 109, 103>>  \* "AltText_img"
S_notes == <<110, 111, 116, 101, 115>>                              \* "notes"
S_alttext == <<97, 108, 116, 116, 101, 120, 116>>                   \* "alttext"
S_alt_text == <<97, 108, 116, 32, 116, 101, 120, 116>>              \* "alt text"
UnitId(n) == <<116, 117, 48 + n>>                                   \* "tu<n>"

\* where: "direct" (child of the body, tag variant of its file), "other" (child of
\* the body, the other tag variant), "group" (inside a <group> of the body)
\* kind "mixed": a note "Hi" in the tag variant of the unit, then a note
\* "Slide Notes" in the other tag variant
UnitDescs ==
    [where : {"direct", "other"}, kind : {"notes", "alt", "both", "plain"}]
    \cup [where : {"group"}, kind : {"notes", "plain"}]
    \cup [where : {"direct"}, kind : {"mixed"}]

\* the <trans-unit> of a description, as a nested value; inside a <group> if so
UnitTree(fileNs, d, n) ==
    LET ns == IF d.where = "other" THEN ~fileNs ELSE fileNs
        T(name) == <<ns, name>>
        source == <<Element(T("source"), <<>>, S_Hi, <<>>, <<>>)>>
        note == IF d.kind \in {"notes", "both"}
                THEN <<Element(T("note"), <<>>, S_SlideNotes, <<>>, <<>>)>>
                ELSE IF d.kind = "mixed"
                THEN <<Element(T("note"), <<>>, S_Hi, <<>>, <<>>),
                       Element(<<~ns, "note">>, <<>>, S_SlideNotes, <<>>, <<>>)>>
                ELSE <<>>
        context == Element(T("context"), << <<"context-type", S_AltTextImg>> >>,
                           <<>>, <<>>, <<>>)
        group == IF d.kind \in {"alt", "both"}
                 THEN <<Element(T("context-group"), <<>>, <<>>, <<>>, <<context>>)>>
                 ELSE <<>>
        tu == Element(T("trans-unit"), << <<"id", UnitId(n)>> >>, <<>>, <<>>,
                      source \o note \o group)
    IN  IF d.where = "group" THEN Element(T("group"), <<>>, <<>>, <<>>, <<tu>>) ELSE tu

\* <file><header/><body>units</body></file>, its units numbered from n
FileTree(f, n) ==
    LET T(name) == <<f.ns, name>>
        header == <<Element(T("header"), <<>>, <<>>, <<>>, <<>>)>>
        body == IF f.hasBody
                THEN <<Element(T("body"), <<>>, <<>>, <<>>,
                               [i \in 1..Len(f.units) |-> UnitTree(f.ns, f.units[i], n + i - 1)])>>
                ELSE <<>>
    IN  Element(T("file"), <<>>, <<>>, <<>>, header \o body)

\* <xliff>files</xliff>
DocTree(fs) ==
    Element(<<fs[1].ns, "xliff">>, <<>>, <<>>, <<>>,
            [i \in 1..Len(fs) |->
                FileTree(fs[i], IF i = 1 THEN 1 ELSE 1 + Len(fs[1].units))])

RECURSIVE Size(_)
RECURSIVE SizeOfFirst(_, _)
Size(t) == 1 + SizeOfFirst(t.kids, Len(t.kids))
SizeOfFirst(ks, n) == IF n = 0 THEN 0 ELSE Size(ks[n]) + SizeOfFirst(ks, n - 1)

\* ET.parse: the objects of a document, the root first, each element before its
\* children
RECURSIVE Objects(_, _)
Objects(t, at) ==
    LET kidAt(j) == at + 1 + SizeOfFirst(t.kids, j - 1)
    IN  <<[t EXCEPT !.kids = [j \in 1..Len(t.kids) |-> kidAt(j)]]>>
        \o Concat([j \in 1..Len(t.kids) |-> Objects(t.kids[j], kidAt(j))])

BuildDoc(fs) == Objects(DocTree(fs), 1)

FilesWith(n) ==
    IF n = 0 THEN [ns : BOOLEAN, hasBody : BOOLEAN, units : {<<>>}]
    ELSE [ns : BOOLEAN, hasBody : {TRUE}, units : [1..n -> UnitDescs]]

\* documents of one or two <file> elements holding at most MaxUnits units
DocDescs ==
    UNION {{<<f>> : f \in FilesWith(a)} : a \in 0..MaxUnits}
    \cup UNION {FilesWith(ab[1]) \X FilesWith(ab[2]) :
                  ab \in {x \in (0..MaxUnits) \X (0..MaxUnits) : x[1] + x[2] <= MaxUnits}}

InitXliff ==
    /\ pc = "filter_xliff"
    /\ \E d \in DocDescs : \E h \in {BuildDoc(d)} :
        /\ heap = h
        /\ tree = 1
        /\ tree0 = h
    /\ notes_only = None
    /\ main_no_notes_alt = None
    /\ todo = <<>>
    /\ placed = <<>>
    /\ notes_patterns = <<S_notes>>
    /\ alt_patterns = <<S_alt_text, S_alttext>>
    /\ StoryIdle

NextXliff == CloneNotes \/ CloneMain \/ LoopStep \/ Return

Spec == InitXliff /\ [][NextXliff]_vars

(***************************************************************************)
(* extract_rows_from_story as a state machine                              *)
(***************************************************************************)
\* one iteration of the for loop over zf.infolist() (lines 139-164)
ScanEntry ==
    /\ pc = "scan"
    /\ idx <= Len(entries)
    /\ media_counts' = Tally(media_counts, entries[idx])
    /\ rows' = Collect(rows, entries[idx], skip_alttext)
    /\ idx' = idx + 1
    /\ pc' = IF Aborts(entries[idx]) THEN "raised" ELSE pc
    /\ UNCHANGED <<entries, skip_alttext, out, deduped, xliffVars>>

\* the dedup pass (lines 166-173)
DedupPass ==
    /\ pc = "scan"
    /\ idx > Len(entries)
    /\ out' = dedup_loop(rows, {}, <<>>)
    /\ deduped' = dedup_loop(rows, {}, <<>>)
    /\ pc' = "sort"
    /\ UNCHANGED <<entries, skip_alttext, idx, rows, media_counts, xliffVars>>

\* out.sort(...) and return (lines 174-175)
SortPass ==
    /\ pc = "sort"
    /\ out' = list_sort(out, <<>>)
    /\ pc' = "returned"
    /\ UNCHANGED <<entries, skip_alttext, idx, rows, media_counts, deduped, xliffVars>>

(***************************************************************************)
(* Input archives of extract_rows_from_story                               *)
(***************************************************************************)
S_Hello == <<72, 101, 108, 108, 111>>                     \* "Hello"
S_World == <<87, 111, 114, 108, 100>>                    \* "World"
S_Yo == <<89, 111>>                                      \* "Yo"
S_Da == <<1044, 1072>>                                   \* "Да"
S_there == <<116, 104, 101, 114, 101>>                  \* "there"
S_PicAltText == <<80, 105, 99, 46, 65, 108, 116, 84, 101, 120, 116>>   \* "Pic.AltText"
S_Click == <<32, 32, 67, 108, 105, 99, 107, 38, 110, 98, 115, 112, 59, 72, 101, 114, 101, 33, 33, 32, 32>>
                                                         \* "  Click&nbsp;Here!!  "
S_HexId == <<51, 70, 57, 65, 45, 50, 49, 66, 67>>       \* "3F9A-21BC"
T_p == <<112>>                                           \* "p"
T_b == <<98>>                                            \* "b"
T_span == <<115, 112, 97, 110>>                         \* "span"
T_doc == <<100, 111, 99>>                               \* "doc"
T_svg == <<115, 118, 103>>                               \* "svg"
T_text == <<116, 101, 120, 116>>                        \* "text"
T_ns_p == <<123, 117, 114, 110, 58, 120, 125, 112>>   \* "{urn:x}p"
K_title == <<116, 105, 116, 108, 101>>                  \* "title"
K_id == <<105, 100>>                                     \* "id"
K_Id == <<73, 100>>                                      \* "Id"
K_a == <<97>>                                            \* "a"
K_b == <<98>>                                            \* "b"
K_k == <<107>>                                           \* "k"
K_fontSize == <<102, 111, 110, 116, 83, 105, 122, 101>>   \* "fontSize"
K_ID == <<73, 68>>                                       \* "ID"

\* <p title="Pic.AltText"><span>Hi</span><span>Yo</span></p>
Xml_AltText ==
    XElem(T_p, << <<K_title, S_PicAltText>> >>, <<>>, <<>>,
          << XElem(T_span, <<>>, S_Hi, <<>>, <<>>), XElem(T_span, <<>>, S_Yo, <<>>, <<>>) >>)

\* <doc><svg><text>Hi</text></svg><p>Да</p></doc>
Xml_Skip ==
    XElem(T_doc, <<>>, <<>>, <<>>,
          << XElem(T_svg, <<>>, <<>>, <<>>, << XElem(T_text, <<>>, S_Hi, <<>>, <<>>) >>),
             XElem(T_p, <<>>, S_Da, <<>>, <<>>) >>)

\* <p xmlns="urn:x" id="3F9A-21BC">  Click&amp;nbsp;Here!!  <b/>there</p>
Xml_Tail ==
    XElem(T_ns_p, << <<K_id, S_HexId>> >>, S_Click, <<>>,
          << XElem(T_b, <<>>, <<>>, S_there, <<>>) >>)

\* <doc><p>Hi<span>Yo</span></p><svg><text>Hello</text></svg>World<p>there</p></doc>
Xml_Deep ==
    XElem(T_doc, <<>>, <<>>, <<>>,
          << XElem(T_p, <<>>, S_Hi, <<>>, << XElem(T_span, <<>>, S_Yo, <<>>, <<>>) >>),
             XElem(T_svg, <<>>, <<>>, S_World, << XElem(T_text, <<>>, S_Hello, <<>>, <<>>) >>),
             XElem(T_p, <<>>, S_there, <<>>, <<>>) >>)

JStr(v) == [t |-> "str", str |-> v]
JDict(items) == [t |-> "dict", items |-> items]
JList(items) == [t |-> "list", items |-> items]

\* {"a": {"b": "Hello"}, "Id": "World"}
Json_Nested ==
    JDict(<< <<K_a, JDict(<< <<K_b, JStr(S_Hello)>> >>)>>, <<K_Id, JStr(S_World)>> >>)

\* [{"k": "Hi"}, {"k": "Yo"}, {"k": "Hi"}]
Json_List ==
    JList(<< JDict(<< <<K_k, JStr(S_Hi)>> >>), JDict(<< <<K_k, JStr(S_Yo)>> >>),
             JDict(<< <<K_k, JStr(S_Hi)>> >>) >>)

\* {"fontSize": "Hello", "ID": "World"}
Json_Noise ==
    JDict(<< <<K_fontSize, JStr(S_Hello)>>, <<K_ID, JStr(S_World)>> >>)

Entry(filename, readable, data) ==
    [filename |-> filename, readable |-> readable, data |-> data]

Garbage == [kind |-> "garbage"]

Bytes(encoding, body) == [kind |-> "bytes", encoding |-> encoding, body |-> body]

\* <p>Да^A</p>: UTF-8 text with the control byte 0x01
Body_DaCtrl == S_p_open \o <<208, 148, 208, 176, 1>> \o S_p_close
\* <p>Hi</p> with the byte 0xFF after the text
Body_HiHigh == S_p_open \o S_Hi \o <<255>> \o S_p_close
\* <p>Hi</p>
Body_Hi == S_p_open \o S_Hi \o S_p_close

EntryCatalog ==
    { Entry(<<97, 46, 120, 109, 108>>, TRUE, [kind |-> "xml", root |-> Xml_AltText]),   \* a.xml
      Entry(<<65, 46, 120, 109, 108>>, TRUE, [kind |-> "xml", root |-> Xml_AltText]),    \* A.xml
      Entry(<<66, 46, 120, 109, 108>>, TRUE, [kind |-> "xml", root |-> Xml_Skip]),       \* B.xml
      Entry(<<112, 46, 120, 109, 108>>, TRUE, [kind |-> "xml", root |-> Xml_Deep]),      \* p.xml
      Entry(<<107, 46, 104, 116, 109>>, TRUE, [kind |-> "xml_ctrl", root |-> Xml_Tail]), \* k.htm
      Entry(<<104, 46, 120, 109, 108>>, TRUE, Bytes("", Body_DaCtrl)),                  \* h.xml
      Entry(<<109, 46, 120, 109, 108>>, TRUE, Bytes("", Body_HiHigh)),                  \* m.xml
      Entry(<<110, 46, 120, 109, 108>>, TRUE, Bytes("foo", Body_Hi)),                   \* n.xml
      Entry(<<99, 46, 120, 109, 108>>, TRUE, Garbage),                                   \* c.xml
      Entry(<<114, 46, 120, 109, 108>>, FALSE, [kind |-> "xml", root |-> Xml_Skip]),     \* r.xml
      Entry(<<100, 46, 106, 115, 111, 110>>, TRUE, [kind |-> "json", doc |-> Json_Nested]), \* d.json
      Entry(<<101, 46, 74, 83, 79, 78>>, TRUE, [kind |-> "json", doc |-> Json_List]),     \* e.JSON
      Entry(<<102, 46, 106, 115, 111, 110>>, TRUE, [kind |-> "json", doc |-> Json_Noise]), \* f.json
      Entry(<<105, 46, 80, 78, 71>>, TRUE, Garbage),                                     \* i.PNG
      Entry(<<115, 46, 109, 112, 51>>, TRUE, Garbage),                                   \* s.mp3
      Entry(<<118, 46, 109, 111, 118>>, TRUE, Garbage),                                  \* v.mov
      Entry(<<122, 46, 98, 105, 110>>, TRUE, Garbage),                                    \* z.bin
      Entry(<<100, 105, 114, 47>>, TRUE, Garbage) }                                        \* dir/

InitStory ==
    /\ pc = "scan"
    /\ \E n \in 0..MaxEntries : entries \in [1..n -> EntryCatalog]
    /\ skip_alttext \in BOOLEAN
    /\ idx = 1
    /\ rows = <<>>
    /\ media_counts = [images |-> 0, audio |-> 0, video |-> 0, other |-> 0]
    /\ out = <<>>
    /\ deduped = <<>>
    /\ XliffIdle

NextStory == ScanEntry \/ DedupPass \/ SortPass

SpecStory == InitStory /\ [][NextStory]_vars

(***************************************************************************)
(* Claims about extract_rows_from_story and the walkers                    *)
(***************************************************************************)
\* the entries the for loop has been through
Scanned == {i \in 1..Len(entries) : i < idx}

\* C3: every record extract_rows_from_story returns has word_count(text) >= 1.
C3_WordCountAtLeastOne ==
    pc = "returned" => \A i \in 1..Len(out) : word_count(out[i][3]) >= 1

\* C4: the dedup pass outputs each distinct (unit_id, path, text) of its input
\* exactly once: no two output records are equal, none of the input is missing
\* and none is added.
C4_DedupExactlyOnce ==
    pc \in {"sort", "returned"} =>
        /\ \A i, j \in 1..Len(deduped) : i # j => deduped[i] # deduped[j]
        /\ ToSet(deduped) = ToSet(rows)

C4_Witness ==
    /\ pc = "sort"
    /\ Len(deduped) >= 2
    /\ Len(rows) > Len(deduped)

\* the key of the claimed order: (lowercased unit_id, lowercased path)
OrderKey(r) == <<LowerStr(r[1]), LowerStr(r[2])>>

S_a_xml == <<97, 46, 120, 109, 108>>   \* "a.xml"
S_B_xml == <<66, 46, 120, 109, 108>>    \* "B.xml"

\* C5: the returned list holds the records of the dedup pass in ascending order
\* of (lowercased unit_id, lowercased path), records of equal key in the order
\* the dedup pass left them; no record of "B.xml" precedes one of "a.xml".
C5_SortedStable ==
    pc = "returned" =>
        /\ Len(out) = Len(deduped)
        /\ ToSet(out) = ToSet(deduped)
        /\ \A i, j \in 1..Len(out) :
              i < j =>
                  /\ ~KeyLess(OrderKey(out[j]), OrderKey(out[i]))
                  /\ OrderKey(out[i]) = OrderKey(out[j]) =>
                        IndexOf(deduped, out[i]) < IndexOf(deduped, out[j])
                  /\ ~(out[i][1] = S_B_xml /\ out[j][1] = S_a_xml)

C5_Witness ==
    /\ pc = "returned"
    /\ out # deduped
    /\ \E i, j \in 1..Len(out) : out[i][1] = S_a_xml /\ out[j][1] = S_B_xml
    /\ \E i, j \in 1..Len(out) : i < j /\ OrderKey(out[i]) = OrderKey(out[j])

\* a record made from an attribute: the last segment of its path starts with "@"
IsAttrRow(r) == \E i \in 1..(Len(r[2]) - 1) :
    /\ r[2][i] = 47
    /\ r[2][i + 1] = 64
    /\ \A j \in (i + 1)..Len(r[2]) : r[2][j] # 47

\* C8: with include_alttext false, no record comes from an attribute whose value
\* holds the AltText marker.
C8_NoAltTextAttributeRecord ==
    skip_alttext =>
        \A i \in 1..Len(rows) : ~(IsAttrRow(rows[i]) /\ Contains(rows[i][3], S_dot_AltText))

IsMedia(name) ==
    EndsWithAny(name, ImageExts) \/ EndsWithAny(name, AudioExts) \/ EndsWithAny(name, VideoExts)

CountSum(c) == c.images + c.audio + c.video + c.other

\* C9 as stated: the four counts sum to the number of entries gone through that
\* are no directories.
C9_SumIsNonDirectoryEntries ==
    CountSum(media_counts) = Cardinality({i \in Scanned : ~is_dir(entries[i])})

\* C9 as amended: images, audio and video count the entries of their extensions;
\* other counts the remaining entries that are no directory and whose name does
\* not end in .xml, .htm, .html or .json; each step adds at most 1 to one count
\* and lowers none.
C9_TallyInv ==
    LET name(i) == LowerStr(entries[i].filename)
    IN  /\ media_counts.images = Cardinality({i \in Scanned : EndsWithAny(name(i), ImageExts)})
        /\ media_counts.audio = Cardinality({i \in Scanned : EndsWithAny(name(i), AudioExts)})
        /\ media_counts.video = Cardinality({i \in Scanned : EndsWithAny(name(i), VideoExts)})
        /\ media_counts.other =
              Cardinality({i \in Scanned : /\ ~is_dir(entries[i])
                                          /\ ~IsMedia(name(i))
                                          /\ ~EndsWithAny(name(i), TextExts)})

C9_TallyStep ==
    /\ media_counts'.images >= media_counts.images
    /\ media_counts'.audio >= media_counts.audio
    /\ media_counts'.video >= media_counts.video
    /\ media_counts'.other >= media_counts.other
    /\ CountSum(media_counts') - CountSum(media_counts) \in {0, 1}

C9_Tally == []C9_TallyInv /\ [][C9_TallyStep]_vars

C9_Witness ==
    /\ pc = "returned"
    /\ media_counts.other = 1
    /\ CountSum(media_counts) = 1
    /\ \E i \in Scanned : EndsWithAny(LowerStr(entries[i].filename), TextExts)

\* the records of the JSON walker if every mapping key extended the path of its
\* container and every sequence handed its own path to its elements
RECURSIVE PrefixedJsonRows(_, _, _)
PrefixedJsonRows(doc, file_id, prefix) ==
    IF doc.t = "dict"
    THEN Concat([i \in 1..Len(doc.items) |->
            LET k == doc.items[i][1]
                v == doc.items[i][2]
                new_path == prefix \o <<46>> \o k
            IN  IF v.t \in {"dict", "list"} THEN PrefixedJsonRows(v, file_id, new_path)
                ELSE IF v.t \in {"str", "int", "float", "bool"}
                     THEN LET val == normalize_text(v.str)
                          IN  IF /\ val # <<>>
                                 /\ is_likely_human_text(val)
                                 /\ ~should_skip_text(val)
                                 /\ LowerStr(k) \notin NOISE_ATTRS
                              THEN << <<file_id, new_path, val>> >>
                              ELSE <<>>
                     ELSE <<>>])
    ELSE IF doc.t = "list"
    THEN Concat([i \in 1..Len(doc.items) |->
                    PrefixedJsonRows(doc.items[i], file_id, prefix)])
    ELSE <<>>

\* the entries gone through that the JSON walker was called on
WalkedJson ==
    {i \in Scanned : /\ EndsWith(LowerStr(entries[i].filename), S_dot_json)
                     /\ ~is_dir(entries[i])
                     /\ entries[i].readable
                     /\ entries[i].data.kind = "json"}

\* C10: the path of a record of the JSON walker is the path of the enclosing
\* container followed by "." and the key, so it names every ancestor key.
C10_PathHasAncestorKeys ==
    \A i \in WalkedJson :
        ToSet(PrefixedJsonRows(entries[i].data.doc, entries[i].filename, <<36>>))
            \subseteq ToSet(rows)

\* the keys of every mapping in a decoded JSON value
RECURSIVE JsonKeys(_)
JsonKeys(doc) ==
    IF doc.t = "dict"
    THEN UNION {{doc.items[i][1]} \cup JsonKeys(doc.items[i][2]) : i \in 1..Len(doc.items)}
    ELSE IF doc.t = "list"
    THEN UNION {JsonKeys(doc.items[i]) : i \in 1..Len(doc.items)}
    ELSE {}

\* the noise-attribute set, compared without letter case
NoiseLower == {LowerStr(m) : m \in NOISE_ATTRS}

\* C11: the JSON walker emits no record for a mapping key that equals a member of
\* the noise-attribute set when the two are compared case-insensitively.
C11_NoNoiseKeyRecord ==
    \A i \in WalkedJson :
        \A k \in JsonKeys(entries[i].data.doc) :
            LowerStr(k) \in NoiseLower =>
                ~\E j \in 1..Len(rows) :
                    /\ rows[j][1] = entries[i].filename
                    /\ EndsWith(rows[j][2], <<46>> \o k)

\* the bytes without those outside printable ASCII, tab, CR and LF
StripToAscii(data) ==
    IF data.kind = "bytes"
    THEN [data EXCEPT !.body = SelectSeq(@, LAMBDA b : b \in {9, 10, 13} \/ b \in 32..126)]
    ELSE cleaned(data)

\* the root a markup entry gives when a failed parse is retried once on the
\* bytes stripped to ASCII and a second failure gives no data
RetriedRoot(data) ==
    IF fromstring(data).exc = "none" THEN fromstring(data).root
    ELSE IF fromstring(StripToAscii(data)).exc = "none"
    THEN fromstring(StripToAscii(data)).root
    ELSE <<>>

\* the records of the first n entries when each entry that fails to parse
\* contributes nothing and every other entry contributes what it holds
RECURSIVE RowsSkippingFailures(_)
RowsSkippingFailures(n) ==
    IF n = 0 THEN <<>>
    ELSE CHOOSE r \in
           {LET info == entries[n]
            IN  IF IsMarkupRead(info)
                THEN IF RetriedRoot(info.data) # <<>>
                     THEN walk_xml_collect(RetriedRoot(info.data)[1], info.filename, prev,
                                           ~skip_alttext)
                     ELSE prev
                ELSE IF n \in WalkedJson
                THEN extract_from_json(info.data.doc, info.filename, prev)
                ELSE prev
            : prev \in {RowsSkippingFailures(n - 1)}} : TRUE

\* C13: no entry aborts extract_rows_from_story; a markup entry that fails to
\* parse is parsed once more from its bytes stripped to printable ASCII, tab, CR
\* and LF; an entry that fails for good contributes no record, and the records
\* of the other entries are what they are without it.
C13_ParseFailureIsLocal ==
    /\ pc # "raised"
    /\ rows = RowsSkippingFailures(idx - 1)

\* the records of the nodes under elem in depth-first document order, a node
\* before its children, without the subtree of any node whose tag is in the
\* skip set
RECURSIVE DepthFirstRows(_, _, _, _)
DepthFirstRows(elem, path, file_id, include_alttext) ==
    IF BareName(elem.tag) \in SKIP_TAGS THEN <<>>
    ELSE NodeRows(elem, path, file_id, include_alttext)
         \o Concat([i \in 1..Len(elem.kids) |->
                       DepthFirstRows(elem.kids[i], path \o <<BareName(elem.tag)>>,
                                      file_id, include_alttext)])

\* the parsed root of a scanned markup entry, <<>> if it has none
WalkedRoot(info) ==
    IF IsMarkupRead(info) /\ parse_xml_bytes(info.data).exc = "none"
    THEN parse_xml_bytes(info.data).root
    ELSE <<>>

\* the records of the first n entries with every markup entry walked that way
RECURSIVE RowsDepthFirst(_)
RowsDepthFirst(n) ==
    IF n = 0 THEN <<>>
    ELSE LET info == entries[n]
         IN  RowsDepthFirst(n - 1)
             \o (IF WalkedRoot(info) # <<>>
                 THEN DepthFirstRows(WalkedRoot(info)[1], <<>>, info.filename, ~skip_alttext)
                 ELSE IF n \in WalkedJson
                 THEN extract_from_json(info.data.doc, info.filename, <<>>)
                 ELSE <<>>)

\* the segments of a path between its "/" separators
RECURSIVE Segments(_, _)
Segments(path, acc) ==
    IF path = <<>> THEN <<acc>>
    ELSE IF Head(path) = 47 THEN <<acc>> \o Segments(Tail(path), <<>>)
    ELSE Segments(Tail(path), Append(acc, Head(path)))

\* C14: the records of walk_xml_collect are those of the nodes without a skip-set
\* tag on themselves or an ancestor, each node once, in depth-first document
\* order; no record comes from a skip-set node or from below one.
C14_PrunedDepthFirst ==
    /\ rows = RowsDepthFirst(idx - 1)
    /\ \A j \in 1..Len(rows) :
          rows[j][2] # <<>> /\ rows[j][2][1] = 47 =>
              ToSet(Segments(rows[j][2], <<>>)) \cap SKIP_TAGS = {}

C14_Witness ==
    /\ \E i \in Scanned : entries[i].data = [kind |-> "xml", root |-> Xml_Deep]
    /\ \E j \in 1..Len(rows) : \E k \in 1..Len(rows) :
          j < k /\ rows[j][3] = S_Yo /\ rows[k][3] = S_there

(***************************************************************************)
(* Claims about filter_xliff                                               *)
(***************************************************************************)
\* the translation units anywhere in the document under root
UnitsUnder(h, root) == {o \in ToSet(Preorder(h, root)) : IsTransUnitTag(h[o].tag)}

IdOf(h, o) == AttrGet(h[o].attrib, "id")

\* how many units of the document under root carry this id
CountIn(h, root, id) == Cardinality({o \in UnitsUnder(h, root) : IdOf(h, o) = id})

\* an element with all it contains, as a value
RECURSIVE Content(_, _)
Content(h, o) ==
    [tag |-> h[o].tag, attrib |-> h[o].attrib, text |-> h[o].text, tail |-> h[o].tail,
     kids |-> [i \in 1..Len(h[o].kids) |-> Content(h, h[o].kids[i])]]

\* an element with all it contains but the translation units
RECURSIVE Skeleton(_, _)
Skeleton(h, o) ==
    LET ks == SelectSeq(h[o].kids, LAMBDA k : ~IsTransUnitTag(h[k].tag))
    IN  [tag |-> h[o].tag, attrib |-> h[o].attrib, text |-> h[o].text, tail |-> h[o].tail,
         kids |-> [i \in 1..Len(ks) |-> Skeleton(h, ks[i])]]

\* C1: when filter_xliff has returned, no translation unit of the input is in both
\* the notes-only document and the main document.
C1_Disjoint ==
    pc = "done" =>
        \A u \in UnitsUnder(tree0, tree) :
            ~(/\ CountIn(heap, notes_only, IdOf(tree0, u)) > 0
              /\ CountIn(heap, main_no_notes_alt, IdOf(tree0, u)) > 0)

\* C2: when filter_xliff has returned, every translation unit of the document is
\* in the notes-only output alone if its hints match the notes patterns, else in
\* neither output if they match the alt patterns, else in the main output once.
C2_ExactlyOnePartition ==
    pc = "done" =>
        \A u \in UnitsUnder(tree0, tree) :
            LET dest == Destination(tree0, u, notes_patterns, alt_patterns)
                inNotes == CountIn(heap, notes_only, IdOf(tree0, u))
                inMain == CountIn(heap, main_no_notes_alt, IdOf(tree0, u))
            IN  /\ dest = "NOTES" => inNotes = 1 /\ inMain = 0
                /\ dest = "ALT" => inNotes = 0 /\ inMain = 0
                /\ dest = "MAIN" => inNotes = 0 /\ inMain = 1

\* C6: before any unit is appended, a shell made by clone_shell holds no
\* translation unit and holds every other node of the document.
C6_ShellHasNoUnits ==
    \A shell \in {notes_only, main_no_notes_alt} \ {None} :
        placed = <<>> =>
            /\ UnitsUnder(heap, shell) = {}
            /\ Skeleton(heap, shell) = Skeleton(tree0, tree)

\* the children of o with this tag name in either variant, in document order
KidsNamed(h, o, name) ==
    SelectSeq(h[o].kids, LAMBDA k : h[k].tag \in {q(name), Bare(name)})

Trimmed(ss) == NonEmpty([i \in 1..Len(ss) |-> Strip(ss[i])])

Occurrences(ss, x) == Cardinality({i \in 1..Len(ss) : ss[i] = x})

SameBag(a, b) ==
    /\ Len(a) = Len(b)
    /\ \A x \in ToSet(a) \cup ToSet(b) : Occurrences(a, x) = Occurrences(b, x)

\* the hints of every note child of a unit, of either tag variant
AllNoteHints(h, tu) ==
    LET notes == KidsNamed(h, tu, "note")
    IN  Trimmed([i \in 1..Len(notes) |-> get_text_recursive(h, notes[i])])

\* the hints of every context child of every context-group child, of either variant
AllContextHints(h, tu) ==
    LET cgs == KidsNamed(h, tu, "context-group")
        cs == Concat([i \in 1..Len(cgs) |-> KidsNamed(h, cgs[i], "context")])
    IN  Trimmed(Concat([i \in 1..Len(cs) |-> ContextHints(h, cs[i])]))

AllAttrHints(h, tu) ==
    Trimmed([i \in 1..Len(IdentifyingAttrs) |-> AttrGet(h[tu].attrib, IdentifyingAttrs[i])])

\* C12: for every unit the loop has classified, contexts_for_tu returns the hints
\* of all its note children, then of all contexts of its context-groups, then its
\* identifying attributes in their fixed order, for either tag variant of each
\* child, and no hint is empty or untrimmed.
C12_HintsOfBothVariants ==
    \A i \in 1..Len(placed) :
        LET tu == placed[i].tu
            hints == contexts_for_tu(tree0, tu)
            nN == Len(AllNoteHints(tree0, tu))
            nC == Len(AllContextHints(tree0, tu))
            nA == Len(AllAttrHints(tree0, tu))
        IN  /\ Len(hints) = nN + nC + nA
            /\ SameBag(SubSeq(hints, 1, nN), AllNoteHints(tree0, tu))
            /\ SameBag(SubSeq(hints, nN + 1, nN + nC), AllContextHints(tree0, tu))
            /\ SubSeq(hints, nN + nC + 1, nN + nC + nA) = AllAttrHints(tree0, tu)
            /\ \A j \in 1..Len(hints) : hints[j] # <<>> /\ Strip(hints[j]) = hints[j]

\* C7: filter_xliff leaves the input tree and its units as they were, and every
\* unit it places in an output is a separate copy with the content of the original.
C7_InputNotMutated ==
    /\ SubSeq(heap, 1, Len(tree0)) = tree0
    /\ \A i \in 1..Len(placed) :
          placed[i].copy # None =>
              /\ \A x \in ToSet(Preorder(heap, placed[i].copy)) : x > Len(tree0)
              /\ Content(heap, placed[i].copy) = Content(tree0, placed[i].tu)
              /\ placed[i].copy \in
                    UnitsUnder(heap, IF placed[i].dest = "NOTES" THEN notes_only
                                     ELSE main_no_notes_alt)

C7_Witness ==
    /\ pc = "done"
    /\ \E i \in 1..Len(placed) : placed[i].dest = "MAIN" /\ placed[i].copy # None
    /\ \E i \in 1..Len(placed) : placed[i].dest = "NOTES" /\ placed[i].copy # None

\* the ids of the translation units under root, in document order
UnitIdsInOrder(h, root) ==
    LET us == SelectSeq(Preorder(h, root), LAMBDA o : IsTransUnitTag(h[o].tag))
    IN  [i \in 1..Len(us) |-> IdOf(h, us[i])]

\* the body of the first <file> under root that has a <body>, None if there is none
FirstBody(h, root) ==
    LET files == SelectSeq(KidsNamed(h, root, "file"),
                           LAMBDA f : KidsNamed(h, f, "body") # <<>>)
    IN  IF files = <<>> THEN None ELSE Head(KidsNamed(h, Head(files), "body"))

\* C15: when filter_xliff has returned, the translation units of each output are
\* in the relative order they have in the input document, and all of them are
\* children of the body of the first file of that output.
C15_OrderKeptInFirstBody ==
    pc = "done" =>
        \A shell \in {notes_only, main_no_notes_alt} :
            LET inIds == UnitIdsInOrder(tree0, tree)
                outIds == UnitIdsInOrder(heap, shell)
            IN  /\ \A a \in 1..Len(outIds) : \A b \in 1..Len(outIds) :
                      a < b => IndexOf(inIds, outIds[a]) < IndexOf(inIds, outIds[b])
                /\ UnitsUnder(heap, shell) # {} =>
                      /\ FirstBody(heap, shell) # None
                      /\ UnitsUnder(heap, shell)
                            \subseteq ToSet(heap[FirstBody(heap, shell)].kids)

====
